---- MODULE Spec2Model ----
(***************************************************************************)
(* Atmospheric thermal-circulation simulation: the field grid of           *)
(* ThermalSystem (temperature, pressure, density), its point sampler, and  *)
(* the tracer particles of ParticleSystem advected through it.             *)
(*                                                                         *)
(* Numbers.  The program computes with IEEE doubles.  Here every real      *)
(* quantity is a fixed-point integer counting units of 1/FP (FP = 10^4):   *)
(* a temperature of 20 degrees is 200000, a pressure of 101325 Pa is       *)
(* 1013250000.  Products and quotients round to the nearest unit.  All     *)
(* intermediate values stay below 2^31.                                    *)
(***************************************************************************)
EXTENDS Integers, Sequences, FiniteSets, TLC

(***************************************************************************)
(* Fixed-point arithmetic                                                  *)
(***************************************************************************)
Half == 10 * 10
FP == Half * Half

\* the real number n / d
R(n, d) == (n * FP) \div d

\* the integer n as a real
I(n) == n * FP

Abs(a) == IF a < 0 THEN -a ELSE a

\* Math.max, Math.min
Max(a, b) == IF a > b THEN a ELSE b
Min(a, b) == IF a < b THEN a ELSE b

\* a * b, computed on the two halves of each factor so that no partial
\* product leaves the 32-bit range
Mul(a, b) ==
    LET ah == a \div Half
        al == a % Half
        bh == b \div Half
        bl == b % Half
    IN  ah * bh + ((ah * bl + al * bh + ((al * bl + (FP \div 2)) \div Half)) \div Half)

RECURSIVE DivDigits(_, _, _)
DivDigits(r, b, n) ==
    IF n = 0 THEN 0
    ELSE LET t == r * 10
         IN  (t \div b) * (10 ^ (n - 1)) + DivDigits(t % b, b, n - 1)

\* a / b for b > 0, by long division to five decimal places, of which the
\* last is rounded away; a divisor too large for the digit step is first
\* reduced together with the dividend
DivLimit == 2 * FP * FP
RECURSIVE Div(_, _)
Div(a, b) ==
    IF b >= DivLimit THEN Div(a \div 10, b \div 10)
    ELSE ((a \div b) * (10 * FP) + DivDigits(a % b, b, 5) + 5) \div 10

\* Math.floor, as an integer
Floor(a) == a \div FP

\* the largest r in lo..hi with r * r <= n
RECURSIVE SqrtSearch(_, _, _)
SqrtSearch(n, lo, hi) ==
    IF lo >= hi THEN lo
    ELSE LET mid == (lo + hi + 1) \div 2
         IN  IF mid * mid <= n THEN SqrtSearch(n, mid, hi)
             ELSE SqrtSearch(n, lo, mid - 1)

\* the integer square root of n < 2^31
ISqrt(n) == SqrtSearch(n, 0, 46340)

\* Math.sqrt(x*x + y*y + z*z): the components are first scaled down by k so
\* that the sum of squares fits, and the root is scaled back
NormSafe == 26 * 1000
Norm(x, y, z) ==
    LET m == Max(Abs(x), Max(Abs(y), Abs(z)))
        k == (m \div NormSafe) + 1
        xs == x \div k
        ys == y \div k
        zs == z \div k
    IN  ISqrt(xs * xs + ys * ys + zs * zs) * k

\* Math.exp by its Taylor series: sum of w^n / n! for n = 0 .. 8
RECURSIVE ExpSum(_, _, _)
ExpSum(w, term, n) ==
    IF n > 8 \/ term = 0 THEN 0
    ELSE term + ExpSum(w, Div(Mul(term, w), I(n)), n + 1)
Exp(w) == ExpSum(w, I(1), 1)

\* Math.log for x > 0: 2 * (z + z^3/3 + z^5/5 + ...), z = (x - 1) / (x + 1)
RECURSIVE LnSum(_, _, _)
LnSum(zz, power, n) ==
    IF n > 9 \/ power = 0 THEN 0
    ELSE Div(power, I(n)) + LnSum(zz, Mul(power, zz), n + 2)
Ln(x) ==
    LET z == Div(x - I(1), x + I(1))
    IN  2 * LnSum(Mul(z, z), z, 1)

\* Math.pow(b, e) for b > 0
Pow(b, e) == Exp(Mul(e, Ln(b)))

\* a JavaScript array with n entries, indices 0 .. n-1
Range(n) == 0 .. (n - 1)
Length(a) == Cardinality(DOMAIN a)

\* the array a with every entry computed once and stored (a function
\* constructor alone is re-evaluated at each access)
Stored(a) == a @@ a

\* a three-dimensional array [h][x][z] of the grid's shape
Grid3(p, cell(_, _, _)) ==
    Stored([h \in Range(p.heightLevels) |->
        Stored([x \in Range(p.gridSize) |->
            Stored([z \in Range(p.gridSize) |-> cell(h, x, z)])])])

(***************************************************************************)
(* State                                                                   *)
(***************************************************************************)
VARIABLES
    params,            \* ThermalSystem.params: gridSize, heightLevels, sources, baseTemperature
    temperatureField,  \* ThermalSystem.temperatureField[h][x][z]
    pressureField,     \* ThermalSystem.pressureField[h][x][z]
    densityField,      \* ThermalSystem.densityField[h][x][z]
    heatIntensity,     \* ThermalSystem.heatIntensity
    coldIntensity,     \* ThermalSystem.coldIntensity
    maxParticles,      \* ParticleSystem.params.maxParticles
    particleSpeed,     \* ParticleSystem.params.particleSpeed
    positions,         \* ParticleSystem.positions (3 entries per particle)
    colors,            \* ParticleSystem.colors (3 entries per particle)
    sizes,             \* ParticleSystem.sizes
    velocities,        \* ParticleSystem.velocities (one vector per entry)
    isActive,          \* ParticleSystem.isActive
    rng,               \* the state of the generator behind Math.random
    ticks,             \* history: number of updateFields calls so far
    calls,             \* history: number of update and reset calls so far
    resizes,           \* history: number of setParticleCount calls so far
    recycled,          \* history: the particles the last update re-initialised
    lastOp,            \* history: the last call that rewrote the particle stores
    isPlaying,         \* ThermalCirculationApp.isPlaying
    simulationSpeed,   \* ThermalCirculationApp.simulationSpeed
    lastTime,          \* ThermalCirculationApp.lastTime, in milliseconds
    clock,             \* the time stamp of the last animation frame, in milliseconds
    elapsed,           \* the time that has passed since the last animation frame
    pausedTime,        \* history: the part of elapsed during which the app was paused
    frameLog,          \* history: for each animation frame, whether it found the app playing
    frameDelta,        \* history: the deltaTime the last call of the app's update was given
    isStepMode,        \* EducationSystem.isStepMode
    currentStep,       \* EducationSystem.currentStep
    stepTimer,         \* EducationSystem.stepTimer: the handle of a timer, or 0 for null
    timers,            \* the step timers pending: the handle, and the step each was armed for
    timerCount,        \* the number of timers created so far, the last handle given out
    stepModeText,      \* the label of the stepMode button
    currentQuizIndex,  \* EducationSystem.currentQuizIndex
    quizScore,         \* EducationSystem.quizScore
    quizView,          \* what quizContent shows: nothing, a question, a feedback or the result
    selected,          \* the option checked in the question shown, -1 when none
    modalOpen          \* whether quizModal is displayed

thermalVars == <<params, temperatureField, pressureField, densityField,
                 heatIntensity, coldIntensity>>
particleVars == <<maxParticles, particleSpeed, positions, colors, sizes,
                  velocities, isActive, rng>>
appVars == <<isPlaying, simulationSpeed, lastTime, clock, elapsed, pausedTime,
             frameLog, frameDelta>>
educationVars == <<isStepMode, currentStep, stepTimer, timers, timerCount, stepModeText>>
quizVars == <<currentQuizIndex, quizScore, quizView, selected, modalOpen>>
driverVars == <<appVars, educationVars, quizVars>>
vars == <<thermalVars, particleVars, ticks, calls, resizes, recycled, lastOp, driverVars>>

(***************************************************************************)
(* ThermalSystem                                                           *)
(***************************************************************************)
\* height of level h: (h / heightLevels) * 2000
LevelHeight(h, p) == Mul(Div(I(h), I(p.heightLevels)), I(2000))

calculateBasePressure(height) ==
    Mul(I(101325),
        Pow(I(1) - Div(Mul(R(65, 10000), height), R(28815, 100)), R(5255, 1000)))

calculateDensity(pressure, temperature) ==
    Div(pressure, Mul(R(28705, 100), temperature + R(27315, 100)))

\* the three arrays as initializeFields fills them
initializeFields(p) ==
    LET cell(h) ==
            LET height == LevelHeight(h, p)
                baseTemp == p.baseTemperature - Mul(height, R(65, 10000))
                basePressure == calculateBasePressure(height)
            IN  [t |-> baseTemp, p |-> basePressure,
                 d |-> calculateDensity(basePressure, baseTemp)]
        level == Stored([h \in Range(p.heightLevels) |-> cell(h)])
        field(a) == LET value(h, x, z) == level[h][a] IN Grid3(p, value)
    IN  [temperatureField |-> field("t"),
         pressureField |-> field("p"),
         densityField |-> field("d")]

\* world position of grid column (x, z)
WorldX(x, p) == Mul(I(x) - Div(I(p.gridSize), I(2)), Div(I(4000), I(p.gridSize)))
WorldZ(z, p) == Mul(I(z) - Div(I(p.gridSize), I(2)), Div(I(1000), I(p.gridSize)))

\* planar distance of grid column (x, z) to a source
SourceDistance(x, z, source, p) ==
    Norm(WorldX(x, p) - source.x, 0, WorldZ(z, p) - source.z)

\* one cell of the temperature pass; heatDist and coldDist are the distances
\* of the cell's column to the two sources
\* the temperature pass with the two intensities taken in the wrong order
updateTemperatureCellSwapped(temp, h, heatDist, coldDist, p, heat, cold) ==
    LET heated == IF heatDist < I(800)
                  THEN temp + Mul(Div(Mul(I(1) - Div(heatDist, I(800)), cold), I(100)),
                                  R(1, 10))
                  ELSE temp
        cooled == IF coldDist < I(800)
                  THEN heated - Mul(Div(Mul(I(1) - Div(coldDist, I(800)), heat), I(100)),
                                    R(1, 10))
                  ELSE heated
    IN  cooled - Mul(Mul(LevelHeight(h, p), R(65, 10000)), R(1, 100))

\* the temperature pass with the result kept within 2 degrees above the
\* baseline
updateTemperatureCellCapped(temp, h, heatDist, coldDist, p, heat, cold) ==
    LET heated == IF heatDist < I(800)
                  THEN temp + Mul(Div(Mul(I(1) - Div(heatDist, I(800)), heat), I(100)),
                                  R(1, 10))
                  ELSE temp
        cooled == IF coldDist < I(800)
                  THEN heated - Mul(Div(Mul(I(1) - Div(coldDist, I(800)), cold), I(100)),
                                    R(1, 10))
                  ELSE heated
    IN  Min(p.baseTemperature + I(2),
            cooled - Mul(Mul(LevelHeight(h, p), R(65, 10000)), R(1, 100)))

updateTemperatureCell(temp, h, heatDist, coldDist, p, heat, cold) ==
    LET heated == IF heatDist < I(800)
                  THEN LET heatInfluence ==
                               Div(Mul(I(1) - Div(heatDist, I(800)), heat), I(100))
                       IN  temp + Mul(heatInfluence, R(1, 10))
                  ELSE temp
        cooled == IF coldDist < I(800)
                  THEN LET coldInfluence ==
                               Div(Mul(I(1) - Div(coldDist, I(800)), cold), I(100))
                       IN  heated - Mul(coldInfluence, R(1, 10))
                  ELSE heated
        height == LevelHeight(h, p)
        lapseRate == R(65, 10000)
    IN  cooled - Mul(Mul(height, lapseRate), R(1, 100))

\* the distances depend on the column only and are computed once per pass
updateTemperatureField(field, p, heat, cold) ==
    LET heatDist == Stored([x \in Range(p.gridSize) |->
                        Stored([z \in Range(p.gridSize) |->
                            SourceDistance(x, z, p.heatSourcePos, p)])])
        coldDist == Stored([x \in Range(p.gridSize) |->
                        Stored([z \in Range(p.gridSize) |->
                            SourceDistance(x, z, p.coldSourcePos, p)])])
        cell(h, x, z) ==
            updateTemperatureCell(field[h][x][z], h, heatDist[x][z],
                                  coldDist[x][z], p, heat, cold)
    IN  Grid3(p, cell)

\* one cell of the pressure pass: the pressure and the density of a cell of
\* temperature temp on a level of base pressure basePressure
\* the pressure pass with the density taken from the base pressure, not
\* from the pressure it has just computed
updatePressureCellStale(temp, basePressure) ==
    LET tempRatio == Div(temp + R(27315, 100), R(28815, 100))
        pressureVariation == Mul(basePressure, I(1) - Mul(tempRatio - I(1), R(1, 10)))
    IN  [p |-> pressureVariation, d |-> calculateDensity(basePressure, temp)]

updatePressureCell(temp, basePressure) ==
    LET tempRatio == Div(temp + R(27315, 100), R(28815, 100))
        pressureVariation == Mul(basePressure, I(1) - Mul(tempRatio - I(1), R(1, 10)))
    IN  [p |-> pressureVariation, d |-> calculateDensity(pressureVariation, temp)]

\* the base pressure depends on the level only and is computed once per pass
updatePressureField(field, p) ==
    LET basePressure == Stored([h \in Range(p.heightLevels) |->
                            calculateBasePressure(LevelHeight(h, p))])
        cell(h, x, z) == updatePressureCell(field[h][x][z], basePressure[h])
        cells == Grid3(p, cell)
        part(a) == LET value(h, x, z) == cells[h][x][z][a] IN Grid3(p, value)
    IN  [pressureField |-> part("p"), densityField |-> part("d")]

\* updateFields with the pressure pass run on the temperatures the tick found
updateFieldsInterleaved(field, p, heat, cold) ==
    LET newTemperature == updateTemperatureField(field, p, heat, cold)
        newPressure == updatePressureField(field, p)
    IN  [temperatureField |-> newTemperature,
         pressureField |-> newPressure.pressureField,
         densityField |-> newPressure.densityField]

\* updateFields: the temperature pass, then the pressure pass on its result
updateFields(field, p, heat, cold) ==
    LET newTemperature == updateTemperatureField(field, p, heat, cold)
        newPressure == updatePressureField(newTemperature, p)
    IN  [temperatureField |-> newTemperature,
         pressureField |-> newPressure.pressureField,
         densityField |-> newPressure.densityField]

\* an intensity stored as given
setIntensityUnchecked(intensity) == intensity

\* the value setHeatIntensity / setColdIntensity stores
setIntensity(intensity) == Max(I(0), Min(I(100), intensity))

\* grid index of a coordinate, as getTemperatureAt and getPressureAt compute it
GridIndex(x, y, z, p) ==
    LET spacing == Div(I(4000), I(p.gridSize))
    IN  [gridX |-> Floor(Div(x + I(2000), spacing)),
         gridZ |-> Floor(Div(z + I(500), spacing)),
         gridH |-> Floor(Div(y, I(100)))]

InGrid(g, p) ==
    /\ g.gridX >= 0 /\ g.gridX < p.gridSize
    /\ g.gridZ >= 0 /\ g.gridZ < p.gridSize
    /\ g.gridH >= 0 /\ g.gridH < p.heightLevels

\* getTemperatureAt that reads the nearest cell of the grid for a
\* coordinate beyond it
getTemperatureAtNearest(field, p, x, y, z) ==
    LET g == GridIndex(x, y, z, p)
    IN  field[Max(0, Min(p.heightLevels - 1, g.gridH))]
             [Max(0, Min(p.gridSize - 1, g.gridX))]
             [Max(0, Min(p.gridSize - 1, g.gridZ))]

getTemperatureAt(field, p, x, y, z) ==
    LET g == GridIndex(x, y, z, p)
    IN  IF InGrid(g, p) THEN field[g.gridH][g.gridX][g.gridZ]
        ELSE p.baseTemperature

getPressureAt(field, p, x, y, z) ==
    LET g == GridIndex(x, y, z, p)
    IN  IF InGrid(g, p) THEN field[g.gridH][g.gridX][g.gridZ]
        ELSE I(101325)

\* getWindVectorAt with the vertical component taken from the pressure
\* difference to the point 100 below
getWindVectorAtIsobaric(tField, pField, p, x, y, z) ==
    LET delta == I(50)
        p0 == getPressureAt(pField, p, x, y, z)
        px == getPressureAt(pField, p, x + delta, y, z)
        pz == getPressureAt(pField, p, x, y, z + delta)
        pBelow == getPressureAt(pField, p, x, y - I(100), z)
    IN  [x |-> -Div(px - p0, delta),
         y |-> Mul(p0 - pBelow, R(1, 100)),
         z |-> -Div(pz - p0, delta)]

getWindVectorAt(tField, pField, p, x, y, z) ==
    LET delta == I(50)
        p0 == getPressureAt(pField, p, x, y, z)
        px == getPressureAt(pField, p, x + delta, y, z)
        pz == getPressureAt(pField, p, x, y, z + delta)
        fx == -Div(px - p0, delta)
        fz == -Div(pz - p0, delta)
        temp == getTemperatureAt(tField, p, x, y, z)
        tempBelow == getTemperatureAt(tField, p, x, y - I(100), z)
        fy == Mul(temp - tempBelow, R(1, 100))
    IN  [x |-> fx, y |-> fy, z |-> fz]

(***************************************************************************)
(* ParticleSystem                                                          *)
(***************************************************************************)
\* Math.random(): a generator whose state is not known to the program; each
\* call returns a number in [0, 1) and advances the state
RandomValue(r) == (r * FP) \div (2 ^ 16)
RandomNext(r) == (r * 25173 + 13849) % (2 ^ 16)

\* a.push(v) in the place of a[i] = v
SetAtPush(a, i, v) == a @@ (Cardinality(DOMAIN a) :> v)

\* a[i] = v on a JavaScript array: an index one past the end appends
SetAt(a, i, v) == IF i \in DOMAIN a THEN [a EXCEPT ![i] = v] ELSE a @@ (i :> v)

\* new Float32Array(n)
Zeros(n) == Stored([i \in Range(n) |-> 0])

\* THREE.Color.setHSL
hue2rgb(p, q, t0) ==
    LET t == IF t0 < 0 THEN t0 + I(1) ELSE IF t0 > I(1) THEN t0 - I(1) ELSE t0
    IN  IF t < R(1, 6) THEN p + Mul(Mul(q - p, I(6)), t)
        ELSE IF t < R(1, 2) THEN q
        ELSE IF t < R(2, 3) THEN p + Mul(Mul(q - p, I(6)), R(2, 3) - t)
        ELSE p

setHSL(h, sat, l) ==
    IF sat = 0 THEN [r |-> l, g |-> l, b |-> l]
    ELSE LET q == IF l <= R(1, 2) THEN Mul(l, I(1) + sat) ELSE l + sat - Mul(l, sat)
             pp == 2 * l - q
         IN  [r |-> hue2rgb(pp, q, h + R(1, 3)),
              g |-> hue2rgb(pp, q, h),
              b |-> hue2rgb(pp, q, h - R(1, 3))]

temperatureToParticleColor(temperature) ==
    LET minTemp == -I(10)
        maxTemp == I(40)
        normalized == Max(I(0), Min(I(1), Div(temperature - minTemp, maxTemp - minTemp)))
        hue == Div(Mul(I(1) - normalized, I(240)), I(360))
    IN  setHSL(hue, R(8, 10), R(6, 10))

\* the domain test of checkBoundaries
OutOfBounds(x, y, z) ==
    Abs(x) > I(2000) \/ y < 0 \/ y > I(2000) \/ Abs(z) > I(500)

\* The particle store is the record ps of positions, colors, sizes,
\* velocities and rng, with the history field recycled (the particles
\* checkBoundaries has re-initialised); tField, pField and p are the thermal
\* system it samples.
\* colors[i3 .. i3 + 2] = color
setColor(ps, i3, color) ==
    [ps EXCEPT !.colors = [@ EXCEPT ![i3] = color.r, ![i3 + 1] = color.g,
                                    ![i3 + 2] = color.b]]

\* the assignments of initializeParticle, given the position drawn
placeParticle(ps, index, x, y, z, tField, p) ==
    LET i3 == index * 3
        temp == getTemperatureAt(tField, p, x, y, z)
        placed == [ps EXCEPT
           !.positions = [@ EXCEPT ![i3] = x, ![i3 + 1] = y, ![i3 + 2] = z],
           !.sizes = [@ EXCEPT ![index] = I(5)],
           !.velocities = SetAt(@, index, [x |-> 0, y |-> 0, z |-> 0])]
    IN  setColor(placed, i3, temperatureToParticleColor(temp))

\* the generator after the three draws of initializeParticle
RandomAfter3(r) == RandomNext(RandomNext(RandomNext(r)))

initializeParticle(ps, index, tField, p) ==
    placeParticle([ps EXCEPT !.rng = RandomAfter3(@)], index,
                  Mul(RandomValue(ps.rng) - R(1, 2), I(4000)),
                  Mul(RandomValue(RandomNext(ps.rng)), I(2000)),
                  Mul(RandomValue(RandomNext(RandomNext(ps.rng))) - R(1, 2), I(1000)),
                  tField, p)

\* for (i = from; i < n; i++) initializeParticle(i): the iterations run in
\* index order, the first half of the range before the second (the test on
\* first.rng, always true, makes the first half be computed first)
RECURSIVE initializeAll(_, _, _, _, _)
initializeRest(first, mid, n, tField, p) ==
    IF first.rng >= 0 THEN initializeAll(first, mid, n, tField, p) ELSE first
initializeAll(ps, from, n, tField, p) ==
    IF from >= n THEN ps
    ELSE IF n = from + 1 THEN initializeParticle(ps, from, tField, p)
    ELSE initializeRest(initializeAll(ps, from, (from + n) \div 2, tField, p),
                        (from + n) \div 2, n, tField, p)

\* createParticleSystem: new attribute arrays of the current capacity, every
\* particle initialised; the velocities array is the one the object has
createParticleSystem(velocityArray, n, r, tField, p) ==
    initializeAll([positions |-> Zeros(n * 3), colors |-> Zeros(n * 3),
                   sizes |-> Zeros(n), velocities |-> velocityArray, rng |-> r,
                   recycled |-> {}],
                  0, n, tField, p)

\* velocity after the speed limit
\* Vector3.normalize().multiplyScalar(s) of a vector of the given length
setLength(v, length, s) ==
    [x |-> Mul(Div(v.x, length), s),
     y |-> Mul(Div(v.y, length), s),
     z |-> Mul(Div(v.z, length), s)]

limitLength(v, length, maxSpeed) ==
    IF length > maxSpeed THEN setLength(v, length, maxSpeed) ELSE v

\* the speed limit with a maximum of 200
limitSpeedWide(v) == limitLength(v, Norm(v.x, v.y, v.z), I(200))

limitSpeed(v) == limitLength(v, Norm(v.x, v.y, v.z), I(20))

\* the velocity updateParticle computes for a particle at (x, y, z)
\* velocity.add(windVector * deltaTime); velocity.y += buoyancyForce * deltaTime
push(v, windVector, buoyancyForce, deltaTime) ==
    [x |-> v.x + Mul(windVector.x, deltaTime),
     y |-> v.y + Mul(windVector.y, deltaTime) + Mul(buoyancyForce, deltaTime),
     z |-> v.z + Mul(windVector.z, deltaTime)]

\* the drag applied twice
dragTwice(v) ==
    [x |-> Mul(Mul(v.x, R(98, 100)), R(98, 100)),
     y |-> Mul(Mul(v.y, R(98, 100)), R(98, 100)),
     z |-> Mul(Mul(v.z, R(98, 100)), R(98, 100))]

\* velocity.multiplyScalar(0.98)
drag(v) ==
    [x |-> Mul(v.x, R(98, 100)), y |-> Mul(v.y, R(98, 100)), z |-> Mul(v.z, R(98, 100))]

\* the buoyancy of a particle in air of the given temperature
buoyancy(temperature) ==
    LET baseTemperature == I(20)
    IN  Mul(temperature - baseTemperature, R(1, 1000))

updateVelocity(v, x, y, z, deltaTime, tField, pField, p) ==
    limitSpeed(drag(push(v, getWindVectorAt(tField, pField, p, x, y, z),
                         buoyancy(getTemperatureAt(tField, p, x, y, z)),
                         deltaTime)))

\* checkBoundaries that finds the particle outside and leaves it there
checkBoundariesKeep(ps, index, tField, p) ==
    IF OutOfBounds(ps.positions[index * 3], ps.positions[index * 3 + 1],
                   ps.positions[index * 3 + 2])
    THEN [ps EXCEPT !.recycled = @ \cup {index}]
    ELSE ps

\* checkBoundaries: a particle outside the domain is initialised again
checkBoundaries(ps, index, tField, p) ==
    LET i3 == index * 3
        needsReset == OutOfBounds(ps.positions[i3], ps.positions[i3 + 1],
                                  ps.positions[i3 + 2])
    IN  IF needsReset
        THEN [initializeParticle(ps, index, tField, p) EXCEPT
                !.recycled = @ \cup {index}]
        ELSE ps

\* the position the integration step of updateParticle reaches
\* positions[i3 .. i3 + 2] += velocity * deltaTime, the velocity stored
move(ps, index, velocity, deltaTime) ==
    [ps EXCEPT !.velocities[index] = velocity,
               !.positions[index * 3] = @ + Mul(velocity.x, deltaTime),
               !.positions[index * 3 + 1] = @ + Mul(velocity.y, deltaTime),
               !.positions[index * 3 + 2] = @ + Mul(velocity.z, deltaTime)]

integrate(ps, index, deltaTime, tField, pField, p) ==
    move(ps, index,
         updateVelocity(ps.velocities[index], ps.positions[index * 3],
                        ps.positions[index * 3 + 1], ps.positions[index * 3 + 2],
                        deltaTime, tField, pField, p),
         deltaTime)

\* the colour update that ends updateParticle
updateColor(ps, index, tField, p) ==
    setColor(ps, index * 3,
             temperatureToParticleColor(
                 getTemperatureAt(tField, p, ps.positions[index * 3],
                                  ps.positions[index * 3 + 1],
                                  ps.positions[index * 3 + 2])))

updateParticle(ps, index, deltaTime, tField, pField, p) ==
    updateColor(checkBoundaries(integrate(ps, index, deltaTime, tField, pField, p),
                                index, tField, p),
                index, tField, p)

\* for (i = from; i < n; i++) updateParticle(i, deltaTime), in index order
RECURSIVE updateAll(_, _, _, _, _, _, _)
updateRest(first, mid, n, deltaTime, tField, pField, p) ==
    IF first.rng >= 0 THEN updateAll(first, mid, n, deltaTime, tField, pField, p)
    ELSE first
updateAll(ps, from, n, deltaTime, tField, pField, p) ==
    IF from >= n THEN ps
    ELSE IF n = from + 1 THEN updateParticle(ps, from, deltaTime, tField, pField, p)
    ELSE updateRest(updateAll(ps, from, (from + n) \div 2, deltaTime, tField, pField, p),
                    (from + n) \div 2, n, deltaTime, tField, pField, p)

\* the value setSpeed stores
setSpeed(speed) == Max(R(1, 10), Min(I(3), speed))

\* the capacity setParticleCount stores
setParticleCount(count) == Max(100, Min(2000, count))

(***************************************************************************)
(* Bounds and inputs                                                       *)
(***************************************************************************)
GridSize == 4          \* params.gridSize of the modelled grid
HeightLevels == 20     \* params.heightLevels
InitParticles == 2     \* params.maxParticles given to the constructor
MaxTicks == 2          \* updateFields calls explored
MaxCalls == 3          \* update and reset calls explored
MaxResizes == 2        \* setParticleCount calls explored
MaxResizedCalls == 1   \* update and reset calls explored after the resizes
E2ETicks == 100        \* ticks of the end-to-end scenario
MaxDriftTicks == 40    \* ticks explored with constant intensities
MaxBaselineCalls == 1  \* update calls explored per configured baseline
MaxFrames == 2         \* animation frames explored
MaxAppCalls == 4       \* particle resets explored under the app
MaxTimers == 2         \* step timers armed
StepCount == 5         \* steps.length of the demonstration

DefaultParams ==
    [gridSize |-> GridSize, heightLevels |-> HeightLevels,
     heatSourcePos |-> [x |-> -I(800), z |-> I(0)],
     coldSourcePos |-> [x |-> I(800), z |-> I(0)],
     baseTemperature |-> I(20)]

\* the grid of the end-to-end scenario
E2EParams ==
    [gridSize |-> 10, heightLevels |-> 4,
     heatSourcePos |-> [x |-> -I(800), z |-> I(0)],
     coldSourcePos |-> [x |-> I(800), z |-> I(0)],
     baseTemperature |-> I(20)]

Seeds == {4242, 65000}
\* params.baseTemperature as the thermal system is constructed with it
BaseTemperatures == {I(20), I(15)}
IntensityInputs == {-I(20), I(130)}
DeltaTimes == {R(16, 1000), I(100)}
SpeedInputs == {I(0), I(5)}
\* the time between two animation frames, in milliseconds
FrameGaps == {16, 20000}
\* values of the speed slider
AppSpeeds == {R(1, 2), I(2)}
CountInputs == {50, 101}
\* the radio buttons of a question
QuizOptions == 0 .. 3

(***************************************************************************)
(* Construction                                                            *)
(***************************************************************************)
\* new ThermalSystem(scene, p), then new ParticleSystem(scene, thermalSystem,
\* {maxParticles: n}) with the generator in state seed
Construct(p, n, seed) ==
    /\ params = p
    /\ LET f == initializeFields(p)
           ps == createParticleSystem(<<>>, n, seed, f.temperatureField, p)
       IN  /\ temperatureField = f.temperatureField
           /\ pressureField = f.pressureField
           /\ densityField = f.densityField
           /\ positions = ps.positions
           /\ colors = ps.colors
           /\ sizes = ps.sizes
           /\ velocities = ps.velocities
           /\ rng = ps.rng
    /\ heatIntensity = I(80)
    /\ coldIntensity = I(60)
    /\ maxParticles = n
    /\ particleSpeed = I(1)
    /\ isActive = FALSE
    /\ ticks = 0
    /\ calls = 0
    /\ resizes = 0
    /\ recycled = {}
    /\ lastOp = [name |-> "constructor", again |-> FALSE, advanced |-> 0]
    /\ isPlaying = FALSE
    /\ simulationSpeed = I(1)
    /\ lastTime = 0
    /\ clock = 0
    /\ elapsed = 0
    /\ pausedTime = 0
    /\ frameLog = <<>>
    /\ frameDelta = 0
    /\ isStepMode = FALSE
    /\ currentStep = 0
    /\ stepTimer = 0
    /\ timers = {}
    /\ timerCount = 0
    /\ stepModeText = "start"
    /\ currentQuizIndex = 0
    /\ quizScore = 0
    /\ quizView = "none"
    /\ selected = -1
    /\ modalOpen = FALSE

Init == \E seed \in Seeds : Construct(DefaultParams, InitParticles, seed)

(***************************************************************************)
(* Operations                                                              *)
(***************************************************************************)
\* the record of a call: its name, whether the call before it was the same,
\* and the time it has advanced the particles by
Called(name) == [name |-> name, again |-> lastOp.name = name, advanced |-> 0]

\* the record of an update that has called updateParticle with deltaTime
Advanced(deltaTime) == [Called("update") EXCEPT !.advanced = deltaTime]

\* the particle store as the operators take it
Store == [positions |-> positions, colors |-> colors, sizes |-> sizes,
          velocities |-> velocities, rng |-> rng, recycled |-> {}]

SetStore(ps) ==
    /\ positions' = ps.positions
    /\ colors' = ps.colors
    /\ sizes' = ps.sizes
    /\ velocities' = ps.velocities
    /\ rng' = ps.rng
    /\ recycled' = ps.recycled

\* setHeatIntensity that recomputes the temperature field at once
SetHeatIntensityEager(intensity) ==
    /\ heatIntensity' = setIntensity(intensity)
    /\ temperatureField' = updateTemperatureField(temperatureField, params,
                                                  setIntensity(intensity), coldIntensity)
    /\ UNCHANGED <<params, pressureField, densityField, coldIntensity>>
    /\ UNCHANGED <<particleVars, ticks, calls, resizes, recycled, lastOp>>
    /\ UNCHANGED driverVars

SetHeatIntensity(intensity) ==
    /\ heatIntensity' = setIntensity(intensity)
    /\ UNCHANGED <<params, temperatureField, pressureField, densityField, coldIntensity>>
    /\ UNCHANGED <<particleVars, ticks, calls, resizes, recycled, lastOp>>
    /\ UNCHANGED driverVars

SetColdIntensity(intensity) ==
    /\ coldIntensity' = setIntensity(intensity)
    /\ UNCHANGED <<params, temperatureField, pressureField, densityField, heatIntensity>>
    /\ UNCHANGED <<particleVars, ticks, calls, resizes, recycled, lastOp>>
    /\ UNCHANGED driverVars

UpdateFields ==
    /\ LET f == updateFields(temperatureField, params, heatIntensity, coldIntensity)
       IN  /\ temperatureField' = f.temperatureField
           /\ pressureField' = f.pressureField
           /\ densityField' = f.densityField
    /\ ticks' = ticks + 1
    /\ UNCHANGED <<params, heatIntensity, coldIntensity>>
    /\ UNCHANGED <<particleVars, calls, resizes, recycled, lastOp>>
    /\ UNCHANGED driverVars

\* update that passes deltaTime on without the speed multiplier
UpdateUnscaled(deltaTime) ==
    /\ IF ~isActive
       THEN UNCHANGED <<positions, colors, sizes, velocities, rng>> /\ recycled' = {}
       ELSE SetStore(updateAll(Store, 0, maxParticles, deltaTime,
                               temperatureField, pressureField, params))
    /\ calls' = calls + 1
    /\ lastOp' = IF isActive THEN Advanced(deltaTime) ELSE Called("update")
    /\ UNCHANGED <<thermalVars, maxParticles, particleSpeed, isActive, ticks, resizes>>
    /\ UNCHANGED driverVars

\* update without the test of isActive
UpdateAlways(deltaTime) ==
    /\ SetStore(updateAll(Store, 0, maxParticles, Mul(deltaTime, particleSpeed),
                          temperatureField, pressureField, params))
    /\ calls' = calls + 1
    /\ lastOp' = Advanced(Mul(deltaTime, particleSpeed))
    /\ UNCHANGED <<thermalVars, maxParticles, particleSpeed, isActive, ticks, resizes>>
    /\ UNCHANGED driverVars

\* ParticleSystem.update(deltaTime)
Update(deltaTime) ==
    /\ IF ~isActive
       THEN UNCHANGED <<positions, colors, sizes, velocities, rng>> /\ recycled' = {}
       ELSE LET speedMultiplier == particleSpeed
            IN  SetStore(updateAll(Store, 0, maxParticles,
                                   Mul(deltaTime, speedMultiplier),
                                   temperatureField, pressureField, params))
    /\ calls' = calls + 1
    /\ lastOp' = IF isActive THEN Advanced(Mul(deltaTime, particleSpeed))
                 ELSE Called("update")
    /\ UNCHANGED <<thermalVars, maxParticles, particleSpeed, isActive, ticks, resizes>>
    /\ UNCHANGED driverVars

Start ==
    /\ isActive' = TRUE
    /\ UNCHANGED <<thermalVars, maxParticles, particleSpeed, positions, colors, sizes,
                   velocities, rng, ticks, calls, resizes, recycled, lastOp>>
    /\ UNCHANGED driverVars

Pause ==
    /\ isActive' = FALSE
    /\ UNCHANGED <<thermalVars, maxParticles, particleSpeed, positions, colors, sizes,
                   velocities, rng, ticks, calls, resizes, recycled, lastOp>>
    /\ UNCHANGED driverVars

\* reset that initialises the fields of the thermal system as well
ResetFields ==
    /\ isActive' = FALSE
    /\ SetStore(initializeAll(Store, 0, maxParticles, temperatureField, params))
    /\ temperatureField' = initializeFields(params).temperatureField
    /\ pressureField' = initializeFields(params).pressureField
    /\ densityField' = initializeFields(params).densityField
    /\ calls' = calls + 1
    /\ lastOp' = Called("reset")
    /\ UNCHANGED <<params, heatIntensity, coldIntensity, maxParticles, particleSpeed,
                   ticks, resizes>>
    /\ UNCHANGED driverVars

\* reset without its call of pause()
ResetRunning ==
    /\ SetStore(initializeAll(Store, 0, maxParticles, temperatureField, params))
    /\ calls' = calls + 1
    /\ lastOp' = Called("reset")
    /\ UNCHANGED <<thermalVars, maxParticles, particleSpeed, isActive, ticks, resizes>>
    /\ UNCHANGED driverVars

Reset ==
    /\ isActive' = FALSE
    /\ SetStore(initializeAll(Store, 0, maxParticles, temperatureField, params))
    /\ calls' = calls + 1
    /\ lastOp' = Called("reset")
    /\ UNCHANGED <<thermalVars, maxParticles, particleSpeed, ticks, resizes>>
    /\ UNCHANGED driverVars

SetSpeed(speed) ==
    /\ particleSpeed' = setSpeed(speed)
    /\ UNCHANGED <<thermalVars, maxParticles, positions, colors, sizes, velocities,
                   isActive, rng, ticks, calls, resizes, recycled, lastOp>>
    /\ UNCHANGED driverVars

\* setParticleCount that leaves the set stopped, as a constructor would
SetParticleCountStopped(count) ==
    /\ maxParticles' = setParticleCount(count)
    /\ SetStore(createParticleSystem(velocities, setParticleCount(count), rng,
                                     temperatureField, params))
    /\ isActive' = FALSE
    /\ resizes' = resizes + 1
    /\ lastOp' = Called("setParticleCount")
    /\ UNCHANGED <<thermalVars, particleSpeed, ticks, calls>>
    /\ UNCHANGED driverVars

\* setParticleCount: the capacity is stored, dispose() frees the mesh and
\* init() runs createParticleSystem again
SetParticleCount(count) ==
    /\ maxParticles' = setParticleCount(count)
    /\ SetStore(createParticleSystem(velocities, setParticleCount(count), rng,
                                     temperatureField, params))
    /\ resizes' = resizes + 1
    /\ lastOp' = Called("setParticleCount")
    /\ UNCHANGED <<thermalVars, particleSpeed, isActive, ticks, calls>>
    /\ UNCHANGED driverVars

(***************************************************************************)
(* ThermalCirculationApp                                                   *)
(***************************************************************************)
\* play(): the flag is set and the particle system started
AppPlay ==
    /\ isPlaying' = TRUE
    /\ isActive' = TRUE
    /\ UNCHANGED <<thermalVars, maxParticles, particleSpeed, positions, colors, sizes,
                   velocities, rng, ticks, calls, resizes, recycled, lastOp>>
    /\ UNCHANGED <<simulationSpeed, lastTime, clock, elapsed, pausedTime, frameLog,
                   frameDelta>>
    /\ UNCHANGED <<educationVars, quizVars>>

\* pause(): the flag is cleared and the particle system paused
AppPause ==
    /\ isPlaying' = FALSE
    /\ isActive' = FALSE
    /\ UNCHANGED <<thermalVars, maxParticles, particleSpeed, positions, colors, sizes,
                   velocities, rng, ticks, calls, resizes, recycled, lastOp>>
    /\ UNCHANGED <<simulationSpeed, lastTime, clock, elapsed, pausedTime, frameLog,
                   frameDelta>>
    /\ UNCHANGED <<educationVars, quizVars>>

\* setSpeed(speed): the app keeps the speed as given and hands it to the
\* particle system, which clamps it
AppSetSpeed(speed) ==
    /\ simulationSpeed' = speed
    /\ particleSpeed' = setSpeed(speed)
    /\ UNCHANGED <<thermalVars, maxParticles, positions, colors, sizes, velocities,
                   isActive, rng, ticks, calls, resizes, recycled, lastOp>>
    /\ UNCHANGED <<isPlaying, lastTime, clock, elapsed, pausedTime, frameLog,
                   frameDelta>>
    /\ UNCHANGED <<educationVars, quizVars>>

\* update with the particles advected on the fields the frame found
AppUpdateStale(deltaTime) ==
    /\ LET f == updateFields(temperatureField, params, heatIntensity, coldIntensity)
       IN  /\ temperatureField' = f.temperatureField
           /\ pressureField' = f.pressureField
           /\ densityField' = f.densityField
    /\ IF ~isActive
       THEN UNCHANGED <<positions, colors, sizes, velocities, rng>> /\ recycled' = {}
       ELSE SetStore(updateAll(Store, 0, maxParticles, Mul(deltaTime, particleSpeed),
                               temperatureField, pressureField, params))
    /\ ticks' = ticks + 1
    /\ calls' = calls + 1
    /\ lastOp' = IF isActive THEN Advanced(Mul(deltaTime, particleSpeed))
                 ELSE Called("update")
    /\ frameDelta' = deltaTime

\* update(deltaTime): thermalSystem.updateFields(deltaTime), then
\* particleSystem.update(deltaTime) on the fields it has left
AppUpdate(deltaTime) ==
    /\ LET f == updateFields(temperatureField, params, heatIntensity, coldIntensity)
       IN  /\ temperatureField' = f.temperatureField
           /\ pressureField' = f.pressureField
           /\ densityField' = f.densityField
           /\ IF ~isActive
              THEN UNCHANGED <<positions, colors, sizes, velocities, rng>>
                   /\ recycled' = {}
              ELSE LET speedMultiplier == particleSpeed
                   IN  SetStore(updateAll(Store, 0, maxParticles,
                                          Mul(deltaTime, speedMultiplier),
                                          f.temperatureField, f.pressureField, params))
    /\ ticks' = ticks + 1
    /\ calls' = calls + 1
    /\ lastOp' = IF isActive THEN Advanced(Mul(deltaTime, particleSpeed))
                 ELSE Called("update")
    /\ frameDelta' = deltaTime

\* gap milliseconds pass without an animation frame
Elapse(gap) ==
    /\ elapsed' = elapsed + gap
    /\ pausedTime' = IF isPlaying THEN pausedTime ELSE pausedTime + gap
    /\ UNCHANGED <<thermalVars, particleVars, ticks, calls, resizes, recycled, lastOp>>
    /\ UNCHANGED <<isPlaying, simulationSpeed, lastTime, clock, frameLog, frameDelta>>
    /\ UNCHANGED <<educationVars, quizVars>>

\* animate(currentTime): the callback of requestAnimationFrame
Frame ==
    LET currentTime == clock + elapsed
        deltaTime == R(currentTime - lastTime, 1000)
    IN  /\ clock' = currentTime
        /\ elapsed' = 0
        /\ pausedTime' = 0
        /\ frameLog' = Append(frameLog, isPlaying)
        /\ IF isPlaying
           THEN /\ AppUpdate(Mul(deltaTime, simulationSpeed))
                /\ lastTime' = currentTime
           ELSE /\ lastTime' = currentTime
                /\ UNCHANGED <<temperatureField, pressureField, densityField, positions,
                               colors, sizes, velocities, rng, ticks, calls, recycled,
                               lastOp, frameDelta>>
        /\ UNCHANGED <<params, heatIntensity, coldIntensity, maxParticles, particleSpeed,
                       isActive, resizes, isPlaying, simulationSpeed>>
        /\ UNCHANGED <<educationVars, quizVars>>

(***************************************************************************)
(* EducationSystem: the step-by-step demonstration                         *)
(***************************************************************************)
\* what the demonstration reads and writes: the two intensities, the particle
\* system's flag and speed, the demonstration's own fields, the timers the
\* browser holds, and the label of the step-mode button
Demo ==
    [heat |-> heatIntensity, cold |-> coldIntensity, active |-> isActive,
     speed |-> particleSpeed, stepMode |-> isStepMode, step |-> currentStep,
     timer |-> stepTimer, timers |-> timers, count |-> timerCount,
     text |-> stepModeText]

SetDemo(d) ==
    /\ heatIntensity' = d.heat
    /\ coldIntensity' = d.cold
    /\ isActive' = d.active
    /\ particleSpeed' = d.speed
    /\ isStepMode' = d.stepMode
    /\ currentStep' = d.step
    /\ stepTimer' = d.timer
    /\ timers' = d.timers
    /\ timerCount' = d.count
    /\ stepModeText' = d.text

\* clearTimeout(this.stepTimer) under its if: the timer of the kept handle is
\* no longer pending (clearing a handle that has fired changes nothing)
clearStepTimer(d) ==
    IF d.timer # 0 THEN [d EXCEPT !.timers = {t \in @ : t.id # d.timer}] ELSE d

\* this.stepTimer = setTimeout(...): a new pending timer, armed while d.step is
\* the current step
setStepTimer(d) ==
    [d EXCEPT !.count = @ + 1, !.timer = d.count + 1,
              !.timers = @ \cup {[id |-> d.count + 1, step |-> d.step]}]

\* resetToInitialState, the particle arrays apart (pause and reset of the
\* particle system: the caller initialises the particles)
resetToInitialState(d) ==
    [d EXCEPT !.heat = setIntensity(I(0)), !.cold = setIntensity(I(0)),
              !.active = FALSE]

restoreNormalSimulation(d) ==
    [d EXCEPT !.heat = setIntensity(I(80)), !.cold = setIntensity(I(60)),
              !.active = TRUE, !.speed = setSpeed(I(1))]

endStepMode(d) ==
    restoreNormalSimulation(
        clearStepTimer([d EXCEPT !.stepMode = FALSE, !.text = "start"]))

\* the actions of a step, up to the point where they return or throw
stepActions(d) ==
    CASE d.step = 0 -> resetToInitialState(d)
      [] d.step = 1 -> [d EXCEPT !.heat = setIntensity(I(80)),
                                 !.cold = setIntensity(I(60))]
      [] d.step = 2 -> [d EXCEPT !.active = TRUE, !.speed = setSpeed(R(1, 2))]
      [] d.step = 3 -> d
      [] d.step = 4 -> [d EXCEPT !.speed = setSpeed(I(1))]

\* the steps whose actions end in this.scene.add(...) or
\* this.scene.getObjectByName(...): EducationSystem never assigns this.scene,
\* so the call throws a TypeError out of showCurrentStep
stepThrows(step) == step \in 1 .. 4

\* showCurrentStep: the actions of the step run first; the pending timer is
\* cleared and the next one armed only when they return
showCurrentStep(d) ==
    IF d.step >= StepCount THEN endStepMode(d)
    ELSE IF stepThrows(d.step) THEN stepActions(d)
    ELSE setStepTimer(clearStepTimer(stepActions(d)))

nextStep(d) ==
    IF d.step < StepCount - 1 THEN showCurrentStep([d EXCEPT !.step = @ + 1])
    ELSE endStepMode(d)

\* a click on the step-mode button: its listener calls startStepMode(), which
\* resets to the initial state and shows step 0, which resets once more
StartStepMode ==
    /\ SetDemo(showCurrentStep(resetToInitialState(
           [Demo EXCEPT !.stepMode = TRUE, !.step = 0, !.text = "exit"])))
    /\ SetStore(initializeAll(
           [initializeAll(Store, 0, maxParticles, temperatureField, params)
               EXCEPT !.recycled = {}],
           0, maxParticles, temperatureField, params))
    /\ calls' = calls + 2
    /\ lastOp' = [name |-> "reset", again |-> TRUE, advanced |-> 0]
    /\ UNCHANGED <<params, temperatureField, pressureField, densityField,
                   maxParticles, ticks, resizes>>
    /\ UNCHANGED <<appVars, quizVars>>

\* a click on the next-step button of the step guide
NextStepClick ==
    /\ SetDemo(nextStep(Demo))
    /\ UNCHANGED <<params, temperatureField, pressureField, densityField,
                   maxParticles, positions, colors, sizes, velocities, rng, ticks,
                   calls, resizes, recycled, lastOp>>
    /\ UNCHANGED <<appVars, quizVars>>

\* the callback of a pending timer: if (this.isStepMode) this.nextStep()
StepTimerFires(t) ==
    /\ t \in timers
    /\ LET fired == [Demo EXCEPT !.timers = @ \ {t}]
       IN  SetDemo(IF isStepMode THEN nextStep(fired) ELSE fired)
    /\ UNCHANGED <<params, temperatureField, pressureField, densityField,
                   maxParticles, positions, colors, sizes, velocities, rng, ticks,
                   calls, resizes, recycled, lastOp>>
    /\ UNCHANGED <<appVars, quizVars>>

\* reset() of the app: pause, the default intensities, the particles
\* initialised, and the demonstration ended if it is running
AppReset ==
    LET stopped == [Demo EXCEPT !.active = FALSE, !.heat = setIntensity(I(80)),
                                !.cold = setIntensity(I(60))]
    IN  /\ isPlaying' = FALSE
        /\ SetDemo(IF isStepMode THEN endStepMode(stopped) ELSE stopped)
        /\ SetStore(initializeAll(Store, 0, maxParticles, temperatureField, params))
        /\ calls' = calls + 1
        /\ lastOp' = Called("reset")
        /\ UNCHANGED <<params, temperatureField, pressureField, densityField,
                       maxParticles, ticks, resizes>>
        /\ UNCHANGED <<simulationSpeed, lastTime, clock, elapsed, pausedTime, frameLog,
                       frameDelta>>
        /\ UNCHANGED quizVars

(***************************************************************************)
(* EducationSystem: the quiz                                               *)
(***************************************************************************)
\* quizQuestions[i].correct
quizQuestions == <<1, 1, 2, 1>>

\* showQuestion: the result once every question is passed, else the options
\* of the current question, none of them checked
showQuestion(index) == IF index >= Len(quizQuestions) THEN "result" ELSE "question"

\* the percentage showQuizResult displays
percentage(score) == Div(I(score), I(Len(quizQuestions))) * 100

\* a click on the quiz button
StartQuiz ==
    /\ currentQuizIndex' = 0
    /\ quizScore' = 0
    /\ modalOpen' = TRUE
    /\ quizView' = showQuestion(0)
    /\ selected' = -1
    /\ UNCHANGED <<thermalVars, particleVars, ticks, calls, resizes, recycled, lastOp>>
    /\ UNCHANGED <<appVars, educationVars>>

\* the user checks one of the radio buttons of the question shown
SelectOption(option) ==
    /\ modalOpen
    /\ quizView = "question"
    /\ selected' = option
    /\ UNCHANGED <<currentQuizIndex, quizScore, quizView, modalOpen>>
    /\ UNCHANGED <<thermalVars, particleVars, ticks, calls, resizes, recycled, lastOp>>
    /\ UNCHANGED <<appVars, educationVars>>

\* submitAnswer that leaves the question and its options in place
SubmitAnswerAgain ==
    /\ modalOpen
    /\ quizView = "question"
    /\ IF selected = -1
       THEN UNCHANGED <<quizScore, quizView, selected>>
       ELSE /\ quizScore' = IF selected = quizQuestions[currentQuizIndex + 1]
                            THEN quizScore + 1 ELSE quizScore
            /\ UNCHANGED <<quizView, selected>>
    /\ UNCHANGED <<currentQuizIndex, modalOpen>>
    /\ UNCHANGED <<thermalVars, particleVars, ticks, calls, resizes, recycled, lastOp>>
    /\ UNCHANGED <<appVars, educationVars>>

\* a click on the submit button of the question shown: without a checked
\* option an alert and nothing else; else the answer is scored and the
\* question is replaced by the feedback
SubmitAnswer ==
    /\ modalOpen
    /\ quizView = "question"
    /\ IF selected = -1
       THEN UNCHANGED <<quizScore, quizView, selected>>
       ELSE /\ quizScore' = IF selected = quizQuestions[currentQuizIndex + 1]
                            THEN quizScore + 1 ELSE quizScore
            /\ quizView' = "feedback"
            /\ selected' = -1
    /\ UNCHANGED <<currentQuizIndex, modalOpen>>
    /\ UNCHANGED <<thermalVars, particleVars, ticks, calls, resizes, recycled, lastOp>>
    /\ UNCHANGED <<appVars, educationVars>>

\* a click on the button of the feedback
NextQuestion ==
    /\ modalOpen
    /\ quizView = "feedback"
    /\ currentQuizIndex' = currentQuizIndex + 1
    /\ quizView' = showQuestion(currentQuizIndex + 1)
    /\ selected' = -1
    /\ UNCHANGED <<quizScore, modalOpen>>
    /\ UNCHANGED <<thermalVars, particleVars, ticks, calls, resizes, recycled, lastOp>>
    /\ UNCHANGED <<appVars, educationVars>>

\* a click on the restart button of the result
RestartQuiz ==
    /\ modalOpen
    /\ quizView = "result"
    /\ StartQuiz

\* a click on the close control of the modal or the close button of the result
CloseQuiz ==
    /\ modalOpen
    /\ modalOpen' = FALSE
    /\ UNCHANGED <<currentQuizIndex, quizScore, quizView, selected>>
    /\ UNCHANGED <<thermalVars, particleVars, ticks, calls, resizes, recycled, lastOp>>
    /\ UNCHANGED <<appVars, educationVars>>

(***************************************************************************)
(* Specifications                                                          *)
(***************************************************************************)
\* the thermal system under its commands and ticks
NextThermal ==
    \/ \E v \in IntensityInputs : SetHeatIntensity(v)
    \/ \E v \in IntensityInputs : SetColdIntensity(v)
    \/ ticks < MaxTicks /\ UpdateFields

SpecThermal == Init /\ [][NextThermal]_vars

\* the particle system on the field as up to MaxTicks ticks have left it:
\* the ticks explored come before the calls that rewrite the particle stores
NextParticles ==
    \/ ticks < MaxTicks /\ calls = 0 /\ UpdateFields
    \/ \E dt \in DeltaTimes : calls < MaxCalls /\ Update(dt)
    \/ Start
    \/ Pause
    \/ calls < MaxCalls /\ Reset
    \/ \E m \in SpeedInputs : SetSpeed(m)

SpecParticles == Init /\ [][NextParticles]_vars

\* the particle system as up to MaxResizes calls of setParticleCount have
\* left it: the resizes explored come before the updates and resets
NextResize ==
    \/ \E n \in CountInputs : resizes < MaxResizes /\ calls = 0 /\ SetParticleCount(n)
    \/ \E dt \in DeltaTimes : calls < MaxResizedCalls /\ Update(dt)
    \/ Start
    \/ Pause
    \/ calls < MaxResizedCalls /\ Reset
    \/ \E m \in SpeedInputs : SetSpeed(m)

SpecResize == Init /\ [][NextResize]_vars

\* the particle system, resized once at most, on the field as up to MaxTicks
\* ticks have left it: the ticks explored come first, then the resize, then
\* the updates and resets
NextStores ==
    \/ ticks < MaxTicks /\ resizes = 0 /\ calls = 0 /\ UpdateFields
    \/ \E n \in CountInputs : resizes = 0 /\ calls = 0 /\ SetParticleCount(n)
    \/ \E dt \in DeltaTimes : calls < MaxResizedCalls /\ Update(dt)
    \/ Start
    \/ Pause
    \/ calls < MaxResizedCalls /\ Reset
    \/ \E m \in SpeedInputs : SetSpeed(m)

SpecStores == Init /\ [][NextStores]_vars

\* the thermal system ticking on with the intensities it was given before
\* its first tick
NextDrift ==
    \/ \E v \in IntensityInputs : ticks = 0 /\ SetHeatIntensity(v)
    \/ \E v \in IntensityInputs : ticks = 0 /\ SetColdIntensity(v)
    \/ ticks < MaxDriftTicks /\ UpdateFields

SpecDrift == Init /\ [][NextDrift]_vars

\* both systems constructed with a baseline temperature of BaseTemperatures
InitBaseline ==
    \E seed \in Seeds, base \in BaseTemperatures :
        Construct([DefaultParams EXCEPT !.baseTemperature = base], InitParticles, seed)

NextBaseline ==
    \/ ticks < MaxTicks /\ calls = 0 /\ UpdateFields
    \/ \E dt \in DeltaTimes : calls < MaxBaselineCalls /\ Update(dt)
    \/ Start
    \/ Pause
    \/ \E m \in SpeedInputs : SetSpeed(m)

SpecBaseline == InitBaseline /\ [][NextBaseline]_vars

\* the app under its play, pause and speed controls and the animation
\* frames of the render loop
NextApp ==
    \/ AppPlay
    \/ AppPause
    \/ \E speed \in AppSpeeds : AppSetSpeed(speed)
    \/ \E gap \in FrameGaps : elapsed = 0 /\ Len(frameLog) < MaxFrames /\ Elapse(gap)
    \/ elapsed > 0 /\ Frame

SpecApp == Init /\ [][NextApp]_vars

\* the controls and the demonstration: play, pause, reset, the step-mode
\* button, the next-step button (the step guide is displayed from
\* startStepMode to endStepMode) and the step timers
NextDemo ==
    \/ AppPlay
    \/ AppPause
    \/ calls < MaxAppCalls /\ AppReset
    \/ timerCount < MaxTimers /\ calls + 2 <= MaxAppCalls /\ StartStepMode
    \/ isStepMode /\ NextStepClick
    \/ \E t \in timers : StepTimerFires(t)

SpecDemo == Init /\ [][NextDemo]_vars

\* the demonstration left alone: the user sets the simulation up and starts
\* the demonstration, and from then on only the timers act.  A pending timer
\* expires after its duration, so its callback is weakly fair.
NextUnattended ==
    \/ ~isStepMode /\ AppPlay
    \/ ~isStepMode /\ AppPause
    \/ \E speed \in AppSpeeds : ~isStepMode /\ AppSetSpeed(speed)
    \/ \E intensity \in IntensityInputs : ~isStepMode /\ SetHeatIntensity(intensity)
    \/ \E intensity \in IntensityInputs : ~isStepMode /\ SetColdIntensity(intensity)
    \/ ~isStepMode /\ timerCount < MaxTimers /\ StartStepMode
    \/ \E t \in timers : StepTimerFires(t)

SpecUnattended ==
    /\ Init
    /\ [][NextUnattended]_vars
    /\ WF_vars(\E t \in timers : StepTimerFires(t))

\* the quiz: the quiz button, the options and buttons of the modal
NextQuiz ==
    \/ StartQuiz
    \/ \E option \in QuizOptions : SelectOption(option)
    \/ SubmitAnswer
    \/ NextQuestion
    \/ RestartQuiz
    \/ CloseQuiz

SpecQuiz == Init /\ [][NextQuiz]_vars

Next == NextThermal \/ NextParticles \/ NextResize

Spec == Init /\ [][Next]_vars

\* the end-to-end scenario: a 10 x 10 x 4 grid, heat intensity 100, cold
\* intensity 0, E2ETicks ticks
InitE2E == Construct(E2EParams, InitParticles, CHOOSE seed \in Seeds : TRUE)

NextE2E ==
    \/ heatIntensity # I(100) /\ SetHeatIntensity(I(100))
    \/ heatIntensity = I(100) /\ coldIntensity # I(0) /\ SetColdIntensity(I(0))
    \/ heatIntensity = I(100) /\ coldIntensity = I(0) /\ ticks < E2ETicks /\ UpdateFields

SpecE2E == InitE2E /\ [][NextE2E]_vars


(***************************************************************************)
(* Properties                                                              *)
(***************************************************************************)
\* clamp(v, lo, hi)
Clamp(v, lo, hi) == IF v < lo THEN lo ELSE IF v > hi THEN hi ELSE v

\* the domain [-2000, 2000] x [0, 2000] x [-500, 500]
Inside(x, y, z) ==
    /\ -I(2000) <= x /\ x <= I(2000)
    /\ I(0) <= y /\ y <= I(2000)
    /\ -I(500) <= z /\ z <= I(500)

\* particle i of the current store
ParticleInside(i) ==
    Inside(positions[i * 3], positions[i * 3 + 1], positions[i * 3 + 2])
ParticleAtRest(i) == velocities[i] = [x |-> 0, y |-> 0, z |-> 0]
ParticleSpeed(i) == Norm(velocities[i].x, velocities[i].y, velocities[i].z)

\* coordinates queried: inside the domain and beyond each of its faces
QueryX == {-I(2500), I(0), I(2500)}
QueryY == {-I(50), I(150), I(2500)}
QueryZ == {-I(600), I(0), I(600)}

\* C1: for every coordinate outside the domain on at least one axis (in
\* particular z > 500 with x and y inside), getPressureAt returns exactly
\* 101325, in every reachable field state.
C1_PressureSentinel ==
    \A x \in QueryX, y \in QueryY, z \in QueryZ :
        ~Inside(x, y, z) =>
            getPressureAt(pressureField, params, x, y, z) = I(101325)

\* C2: after initialisation and after every updateFields tick, the density
\* of every cell equals pressure / (287.05 * (temperature + 273.15)) of the
\* pressure and the temperature stored in that same cell.
C2_DensityInvariant ==
    \A h \in Range(params.heightLevels), x \in Range(params.gridSize),
       z \in Range(params.gridSize) :
        densityField[h][x][z] =
            Div(pressureField[h][x][z],
                Mul(R(28705, 100), temperatureField[h][x][z] + R(27315, 100)))

\* a tick has run and has changed the temperature of a cell
C2_Witness ==
    /\ ticks > 0
    /\ \E x \in Range(params.gridSize), z \in Range(params.gridSize) :
           temperatureField[0][x][z] # params.baseTemperature

\* the grid index whose world coordinate is nearest to w
NearestX(w, p) ==
    CHOOSE x \in Range(p.gridSize) :
        \A other \in Range(p.gridSize) :
            Abs(WorldX(x, p) - w) <= Abs(WorldX(other, p) - w)
NearestZ(w, p) ==
    CHOOSE z \in Range(p.gridSize) :
        \A other \in Range(p.gridSize) :
            Abs(WorldZ(z, p) - w) <= Abs(WorldZ(other, p) - w)

\* the lowest cell nearest (wx, wz): by the grid's world positions, and as
\* the point query finds it
CellNearest(field, p, wx, wz) == field[0][NearestX(wx, p)][NearestZ(wz, p)]
CellSampled(field, p, wx, wz) == getTemperatureAt(field, p, wx, I(0), wz)

InitialTemperature == initializeFields(params).temperatureField

\* C3, as stated: after the 100 ticks of the end-to-end scenario the cell
\* nearest (-800, lowest altitude, 0) is strictly warmer than it was at the
\* start and remains colder than the cell nearest (800, lowest altitude, 0),
\* under one reading of "nearest cell" at least.
C3_EndToEndAsStated ==
    ticks = E2ETicks =>
        \/ /\ CellNearest(temperatureField, params, -I(800), I(0))
                  > CellNearest(InitialTemperature, params, -I(800), I(0))
           /\ CellNearest(temperatureField, params, -I(800), I(0))
                  < CellNearest(temperatureField, params, I(800), I(0))
        \/ /\ CellSampled(temperatureField, params, -I(800), I(0))
                  > CellSampled(InitialTemperature, params, -I(800), I(0))
           /\ CellSampled(temperatureField, params, -I(800), I(0))
                  < CellSampled(temperatureField, params, I(800), I(0))

\* C3, amended: after the 100 ticks the cell nearest (-800, lowest altitude,
\* 0) is strictly warmer than it was at the start and strictly warmer than
\* the cell nearest (800, lowest altitude, 0), under both readings of
\* "nearest cell".
C3_EndToEnd ==
    ticks = E2ETicks =>
        /\ CellNearest(temperatureField, params, -I(800), I(0))
               > CellNearest(InitialTemperature, params, -I(800), I(0))
        /\ CellNearest(temperatureField, params, -I(800), I(0))
               > CellNearest(temperatureField, params, I(800), I(0))
        /\ CellSampled(temperatureField, params, -I(800), I(0))
               > CellSampled(InitialTemperature, params, -I(800), I(0))
        /\ CellSampled(temperatureField, params, -I(800), I(0))
               > CellSampled(temperatureField, params, I(800), I(0))

\* the scenario has run to its end
C3_Witness ==
    ticks = E2ETicks /\ heatIntensity = I(100) /\ coldIntensity = I(0)

\* C4: a particle that the integration step of updateParticle put outside
\* the domain is, after the call, inside the domain with velocity exactly
\* (0, 0, 0); and after any update every particle is inside the domain.
C4_BoundaryRecycling ==
    /\ \A i \in recycled : ParticleInside(i) /\ ParticleAtRest(i)
    /\ \A i \in Range(maxParticles) : ParticleInside(i)

\* an update has recycled a particle
C4_Witness == lastOp.name = "update" /\ recycled # {}

\* what the speed limit may exceed 20 by: a hundredth
SpeedTolerance == FP \div 100

\* C5: after any update every particle's speed is at most 20 (within the
\* tolerance of the arithmetic).
C5_SpeedClamp ==
    \A i \in DOMAIN velocities : ParticleSpeed(i) <= I(20) + SpeedTolerance

\* an update has left a particle at the limit
C5_Witness ==
    /\ lastOp.name = "update"
    /\ \E i \in Range(maxParticles) : ParticleSpeed(i) >= I(20) - SpeedTolerance

\* C6: setHeatIntensity(v) stores clamp(v, 0, 100) as the heat intensity and
\* setColdIntensity(v) as the cold intensity, and after every step both
\* intensities lie in [0, 100].
C6_IntensityClamp ==
    [][/\ \A v \in IntensityInputs :
              /\ SetHeatIntensity(v) => heatIntensity' = Clamp(v, I(0), I(100))
              /\ SetColdIntensity(v) => coldIntensity' = Clamp(v, I(0), I(100))
       /\ I(0) <= heatIntensity' /\ heatIntensity' <= I(100)
       /\ I(0) <= coldIntensity' /\ coldIntensity' <= I(100)]_vars

\* both setters have stored a clamped value: 130 as 100, -20 as 0
C6_Witness == heatIntensity = I(100) /\ coldIntensity = I(0)

\* a step that is a call of reset, of update
IsReset == calls' = calls + 1 /\ lastOp'.name = "reset"
IsUpdate == calls' = calls + 1 /\ lastOp'.name = "update"

\* C7: reset leaves the particle set paused, every particle inside the
\* domain and at rest, from a running and from a paused state, the first
\* time and every time after.
C7_Reset ==
    [][IsReset =>
          /\ ~isActive'
          /\ \A i \in Range(maxParticles') :
                 /\ Inside(positions'[i * 3], positions'[i * 3 + 1],
                           positions'[i * 3 + 2])
                 /\ velocities'[i] = [x |-> 0, y |-> 0, z |-> 0]]_vars

\* reset has been called twice in a row
C7_Witness ==
    /\ lastOp.name = "reset" /\ lastOp.again
    /\ ~isActive
    /\ \A i \in Range(maxParticles) : ParticleInside(i) /\ ParticleAtRest(i)

\* C8: after setParticleCount(n) the set has exactly clamp(n, 100, 2000)
\* particles, and each of positions, velocities, colours and sizes has
\* exactly that many entries: no entry of the previous set survives.
C8_ParticleCount ==
    resizes > 0 =>
        /\ maxParticles >= 100 /\ maxParticles <= 2000
        /\ Length(positions) = maxParticles * 3
        /\ Length(colors) = maxParticles * 3
        /\ Length(sizes) = maxParticles
        /\ Length(velocities) = maxParticles

\* C9: no call but setParticleCount changes the number of particles: start,
\* pause, reset, setSpeed and update, with its recycling, leave the capacity
\* and the entries of every store where they are.
C9_CountUnchanged ==
    [][resizes' = resizes =>
          /\ maxParticles' = maxParticles
          /\ DOMAIN positions' = DOMAIN positions
          /\ DOMAIN colors' = DOMAIN colors
          /\ DOMAIN sizes' = DOMAIN sizes
          /\ DOMAIN velocities' = DOMAIN velocities]_vars

\* an update has recycled a particle of a resized set, and the set has the
\* entries it had
C9_Witness ==
    /\ resizes > 0 /\ lastOp.name = "update" /\ recycled # {}
    /\ Length(positions) = maxParticles * 3
    /\ Length(sizes) = maxParticles

\* C10: while the particle set is paused, update changes no position, no
\* velocity and no colour, for any deltaTime and any number of calls.
C10_PausedUpdate ==
    [][(IsUpdate /\ ~isActive) =>
          /\ positions' = positions
          /\ velocities' = velocities
          /\ colors' = colors]_vars

\* update has been called twice in a row on a set that is paused and has
\* never moved
C10_Witness ==
    /\ lastOp.name = "update" /\ lastOp.again
    /\ ~isActive
    /\ \A i \in Range(maxParticles) : ParticleAtRest(i)


\* C11: the particle set is stopped on construction, starts running only by
\* start and stops only by pause or by reset (which pauses); update,
\* setSpeed, setParticleCount and the recycling inside update never change
\* the run state.
C11_RunState ==
    /\ ~isActive
    /\ [][/\ (IsUpdate \/ resizes' # resizes \/ particleSpeed' # particleSpeed)
                 => isActive' = isActive
          /\ (~isActive /\ isActive') => Start
          /\ (isActive /\ ~isActive') => (Pause \/ IsReset)]_vars

\* a resized set is running and its last update has recycled a particle
C11_Witness ==
    /\ isActive /\ resizes > 0
    /\ lastOp.name = "update" /\ recycled # {}


\* the particles as advection by a time step of dt leaves them
Advected(dt) ==
    updateAll(Store, 0, maxParticles, dt, temperatureField, pressureField, params)

\* C12: setSpeed(m) stores clamp(m, 0.1, 3); every update(dt) of a running
\* set advects every particle by dt times the stored multiplier; and no
\* call but setSpeed changes the stored multiplier.
C12_SetSpeed ==
    [][/\ \A m \in SpeedInputs :
              SetSpeed(m) => particleSpeed' = Clamp(m, R(1, 10), I(3))
       /\ (IsUpdate /\ isActive) =>
              \E dt \in DeltaTimes :
                  /\ positions' = Advected(Mul(dt, particleSpeed)).positions
                  /\ velocities' = Advected(Mul(dt, particleSpeed)).velocities
       /\ (\A m \in SpeedInputs : ~SetSpeed(m)) => particleSpeed' = particleSpeed]_vars

\* a set running at the multiplier 3, stored for the input 5, has been
\* updated and a particle moves
C12_Witness ==
    /\ particleSpeed = I(3) /\ isActive /\ lastOp.name = "update"
    /\ \E i \in Range(maxParticles) : ~ParticleAtRest(i)


\* C13: setHeatIntensity and setColdIntensity leave the temperature, the
\* pressure and the density of every cell unchanged, and the next
\* updateFields call computes the temperature of every cell with the
\* intensities then stored.
C13_IntensityEffect ==
    [][/\ ticks' = ticks =>
              UNCHANGED <<temperatureField, pressureField, densityField>>
       /\ ticks' = ticks + 1 =>
              temperatureField' =
                  updateTemperatureField(temperatureField, params,
                                         heatIntensity, coldIntensity)]_vars

\* both intensities were set to 0 before the ticks: no cell of the lowest
\* level has been heated or cooled
C13_Witness ==
    /\ ticks > 0 /\ heatIntensity = I(0) /\ coldIntensity = I(0)
    /\ \A x \in Range(params.gridSize), z \in Range(params.gridSize) :
           temperatureField[0][x][z] = params.baseTemperature


\* coordinates queried: on, inside and beyond the faces of the domain and
\* of the grid
SampleX == {-I(2500), -I(2000), -I(800), I(1999), I(2000), I(2500)}
SampleY == {-I(50), I(0), I(150), I(1999), I(2000)}
SampleZ == {-I(600), -I(500), I(0), I(600), I(3500), I(4000)}

\* the value a point query is to return for (x, y, z): the cell of the
\* floored indices when each is inside its dimension, else the sentinel
Queried(field, p, x, y, z, sentinel) ==
    LET spacing == Div(I(4000), I(p.gridSize))
        gridX == (x + I(2000)) \div spacing
        gridZ == (z + I(500)) \div spacing
        gridH == y \div I(100)
    IN  IF /\ gridX \in Range(p.gridSize)
           /\ gridZ \in Range(p.gridSize)
           /\ gridH \in Range(p.heightLevels)
        THEN field[gridH][gridX][gridZ]
        ELSE sentinel

\* C14: for any coordinates getTemperatureAt and getPressureAt return the
\* cell stored at floor((x+2000)/spacing), floor((z+500)/spacing),
\* floor(y/100) when these indices are all inside the grid, and otherwise
\* the sentinel: the configured baseTemperature, and 101325.
C14_PointQueries ==
    \A x \in SampleX, y \in SampleY, z \in SampleZ :
        /\ getTemperatureAt(temperatureField, params, x, y, z)
               = Queried(temperatureField, params, x, y, z, params.baseTemperature)
        /\ getPressureAt(pressureField, params, x, y, z)
               = Queried(pressureField, params, x, y, z, I(101325))

\* after a tick a query inside the grid returns a cell the tick has
\* changed and a query beyond the grid returns the sentinel
C14_Witness ==
    /\ ticks > 0
    /\ getTemperatureAt(temperatureField, params, -I(800), I(0), I(0))
           # params.baseTemperature
    /\ getPressureAt(pressureField, params, I(2500), I(150), I(0)) = I(101325)


\* C15: the temperature, pressure and density arrays are written by
\* updateFields only: particle updates, resets and resizes, start, pause and
\* setSpeed leave every cell unchanged, and a tick computes the new arrays
\* from the old ones and the intensities alone, whatever the particles are.
C15_FieldWriters ==
    [][/\ ticks' = ticks =>
              UNCHANGED <<temperatureField, pressureField, densityField>>
       /\ ticks' = ticks + 1 =>
              /\ temperatureField' =
                     updateFields(temperatureField, params, heatIntensity,
                                  coldIntensity).temperatureField
              /\ pressureField' =
                     updateFields(temperatureField, params, heatIntensity,
                                  coldIntensity).pressureField]_vars

\* on a field that has ticked, a resized running set has been updated and
\* has recycled a particle
C15_Witness ==
    /\ ticks > 0 /\ resizes > 0 /\ isActive
    /\ lastOp.name = "update" /\ recycled # {}
    /\ \E x \in Range(params.gridSize), z \in Range(params.gridSize) :
           temperatureField[0][x][z] # params.baseTemperature


\* C16: after a tick the pressure of every cell is
\* basePressure(height) * (1 - ((T + 273.15) / 288.15 - 1) * 0.1) with T the
\* temperature that tick has left in the cell: the pressure pass runs after
\* the whole temperature pass.
C16_TwoPass ==
    ticks > 0 =>
        \A h \in Range(params.heightLevels), x \in Range(params.gridSize),
           z \in Range(params.gridSize) :
            pressureField[h][x][z] =
                Mul(calculateBasePressure(Div(Mul(I(h), I(2000)),
                                              I(params.heightLevels))),
                    I(1) - Mul(Div(temperatureField[h][x][z] + R(27315, 100),
                                   R(28815, 100)) - I(1),
                               R(1, 10)))

\* every tick allowed has run, the last one with the heat source at full
\* intensity, and has warmed a cell of the ground level and cooled one of
\* the top level
C16_Witness ==
    /\ ticks = MaxTicks /\ heatIntensity = I(100)
    /\ \E x \in Range(params.gridSize), z \in Range(params.gridSize) :
           /\ temperatureField[0][x][z] > params.baseTemperature
           /\ temperatureField[params.heightLevels - 1][x][z] <
                  InitialTemperature[params.heightLevels - 1][x][z]


\* C17: a point query at the world position the temperature pass assigns to
\* a cell (WorldX of its x, the height of its level, WorldZ of its z) returns
\* the temperature and the pressure stored in that cell, for every cell of
\* the grid.
C17_SamplerConsistent ==
    \A h \in Range(params.heightLevels), x \in Range(params.gridSize),
       z \in Range(params.gridSize) :
        /\ getTemperatureAt(temperatureField, params, WorldX(x, params),
                            LevelHeight(h, params), WorldZ(z, params)) =
               temperatureField[h][x][z]
        /\ getPressureAt(pressureField, params, WorldX(x, params),
                         LevelHeight(h, params), WorldZ(z, params)) =
               pressureField[h][x][z]


\* the change of the temperature of cell (h, x, z) in one tick, as C18
\* states it
TickChange(h, x, z, p, heat, cold) ==
    LET heatDist == Norm(WorldX(x, p) - p.heatSourcePos.x, 0,
                         WorldZ(z, p) - p.heatSourcePos.z)
        coldDist == Norm(WorldX(x, p) - p.coldSourcePos.x, 0,
                         WorldZ(z, p) - p.coldSourcePos.z)
        height == Mul(Div(I(h), I(p.heightLevels)), I(2000))
    IN  (IF heatDist < I(800)
         THEN Mul(Div(Mul(I(1) - Div(heatDist, I(800)), heat), I(100)), R(1, 10))
         ELSE 0)
        - (IF coldDist < I(800)
           THEN Mul(Div(Mul(I(1) - Div(coldDist, I(800)), cold), I(100)), R(1, 10))
           ELSE 0)
        - Mul(Mul(height, R(65, 10000)), R(1, 100))

\* C18: a tick changes the temperature of a cell by
\* +(1 - heatDist/800) * heatIntensity/100 * 0.1 if heatDist < 800,
\* -(1 - coldDist/800) * coldIntensity/100 * 0.1 if coldDist < 800, and
\* -height * 0.0065 * 0.01, whatever the temperature of the cell: with
\* constant intensities the temperature after n ticks is the initial one plus
\* n times that change, without a bound.
C18_TickChange ==
    LET initial == InitialTemperature
    IN  \A h \in Range(params.heightLevels), x \in Range(params.gridSize),
           z \in Range(params.gridSize) :
            temperatureField[h][x][z] =
                initial[h][x][z]
                    + ticks * TickChange(h, x, z, params, heatIntensity,
                                         coldIntensity)

\* after MaxDriftTicks ticks at full intensities a cell of the ground level
\* is more than 2 degrees above the baseline and another more than 2 degrees
\* below it
C18_Witness ==
    /\ ticks = MaxDriftTicks
    /\ heatIntensity = I(100) /\ coldIntensity = I(100)
    /\ \E x \in Range(params.gridSize), z \in Range(params.gridSize) :
           temperatureField[0][x][z] > params.baseTemperature + I(2)
    /\ \E x \in Range(params.gridSize), z \in Range(params.gridSize) :
           temperatureField[0][x][z] < params.baseTemperature - I(2)


\* the velocity updateParticle leaves to particle i after deltaTime when the
\* buoyancy is taken relative to baseTemperature
Buoyant(i, deltaTime, baseTemperature) ==
    LET x == positions[i * 3]
        y == positions[i * 3 + 1]
        z == positions[i * 3 + 2]
        buoyancyForce ==
            Mul(getTemperatureAt(temperatureField, params, x, y, z) - baseTemperature,
                R(1, 1000))
    IN  limitSpeed(drag(push(velocities[i],
                             getWindVectorAt(temperatureField, pressureField,
                                             params, x, y, z),
                             buoyancyForce, deltaTime)))

\* C19: the buoyancy updateParticle adds to the vertical velocity is
\* (getTemperatureAt(position) - baseTemperature) * 0.001 * dt with
\* baseTemperature the baseline the thermal system was configured with, for
\* every configured baseline.
C19_BuoyancyBaseline ==
    [][(IsUpdate /\ isActive) =>
           \E dt \in DeltaTimes :
               \A i \in Range(maxParticles) \ recycled' :
                   velocities'[i] =
                       Buoyant(i, Mul(dt, particleSpeed), params.baseTemperature)]_vars


\* the wind and the temperature at the position of particle i
WindAt(i) ==
    getWindVectorAt(temperatureField, pressureField, params,
                    positions[i * 3], positions[i * 3 + 1], positions[i * 3 + 2])
TemperatureAt(i) ==
    getTemperatureAt(temperatureField, params,
                     positions[i * 3], positions[i * 3 + 1], positions[i * 3 + 2])

\* neither wind nor buoyancy acts on particle i
Unforced(i) == WindAt(i) = [x |-> 0, y |-> 0, z |-> 0] /\ TemperatureAt(i) = I(20)

\* v scaled by 0.98
Dragged(v) ==
    [x |-> Mul(R(98, 100), v.x), y |-> Mul(R(98, 100), v.y), z |-> Mul(R(98, 100), v.z)]

\* the velocity of particle i with wind * dt and buoyancy * dt added
Accelerated(i, dt) ==
    [x |-> velocities[i].x + Mul(WindAt(i).x, dt),
     y |-> velocities[i].y + Mul(WindAt(i).y, dt)
               + Mul(Mul(TemperatureAt(i) - I(20), R(1, 1000)), dt),
     z |-> velocities[i].z + Mul(WindAt(i).z, dt)]

\* C20: an update multiplies the velocity of every particle by 0.98 once,
\* after wind * dt and buoyancy * dt are added and before the speed limit
\* and the position update: a particle that is not recycled and on which
\* neither wind nor buoyancy acts leaves the update with 0.98 times the
\* velocity it had, whatever dt, and every particle that is not recycled has
\* moved by its new velocity times dt.
C20_Drag ==
    [][(IsUpdate /\ isActive) =>
           \E deltaTime \in DeltaTimes :
               LET dt == Mul(deltaTime, particleSpeed)
               IN  \A i \in Range(maxParticles) \ recycled' :
                       /\ Unforced(i) => velocities'[i] = Dragged(velocities[i])
                       /\ velocities'[i] = limitSpeed(Dragged(Accelerated(i, dt)))
                       /\ \A k \in 0..2 :
                              positions'[i * 3 + k] =
                                  positions[i * 3 + k]
                                      + Mul(CASE k = 0 -> velocities'[i].x
                                              [] k = 1 -> velocities'[i].y
                                              [] k = 2 -> velocities'[i].z,
                                            dt)]_vars

\* neither wind nor buoyancy acts at (x, y, z)
UnforcedAt(x, y, z) ==
    /\ getWindVectorAt(temperatureField, pressureField, params, x, y, z) =
           [x |-> 0, y |-> 0, z |-> 0]
    /\ getTemperatureAt(temperatureField, params, x, y, z) = I(20)

\* the last update has moved, without recycling it, a particle that an
\* earlier update had set in motion, from a position where neither wind nor
\* buoyancy acts
C20_Witness ==
    /\ lastOp.name = "update" /\ lastOp.again /\ lastOp.advanced > 0
    /\ \E i \in Range(maxParticles) \ recycled :
           /\ ~ParticleAtRest(i)
           /\ UnforcedAt(positions[i * 3] - Mul(velocities[i].x, lastOp.advanced),
                         positions[i * 3 + 1] - Mul(velocities[i].y, lastOp.advanced),
                         positions[i * 3 + 2] - Mul(velocities[i].z, lastOp.advanced))


\* the point queries as C21 names them
P(x, y, z) == Queried(pressureField, params, x, y, z, I(101325))
T(x, y, z) == Queried(temperatureField, params, x, y, z, params.baseTemperature)

\* x coordinates of the wind queries: those of the point queries, and one
\* within 50 of the boundary between two columns of the grid
WindX == SampleX \cup {-I(1025)}

\* C21: getWindVectorAt(x, y, z) returns
\* fx = -(P(x+50, y, z) - P(x, y, z)) / 50,
\* fz = -(P(x, y, z+50) - P(x, y, z)) / 50 and
\* fy = (T(x, y, z) - T(x, y-100, z)) * 0.01, with P and T the point queries
\* on the current fields, sentinels included: the vertical component does
\* not depend on the pressure.
C21_WindVector ==
    \A x \in WindX, y \in SampleY, z \in SampleZ :
        getWindVectorAt(temperatureField, pressureField, params, x, y, z) =
            [x |-> -Div(P(x + I(50), y, z) - P(x, y, z), I(50)),
             y |-> Mul(T(x, y, z) - T(x, y - I(100), z), R(1, 100)),
             z |-> -Div(P(x, y, z + I(50)) - P(x, y, z), I(50))]

\* a tick has changed the temperature at (-1025, 150, 0), and the wind at
\* (1999, 150, 0) has a vertical component and a horizontal one, taken
\* against the sentinel
C21_Witness ==
    /\ ticks > 0
    /\ T(-I(1025), I(150), I(0)) # InitialTemperature[1][0][0]
    /\ P(I(1999) + I(50), I(150), I(0)) = I(101325)
    /\ getWindVectorAt(temperatureField, pressureField, params,
                       I(1999), I(150), I(0)).x # 0
    /\ getWindVectorAt(temperatureField, pressureField, params,
                       I(1999), I(150), I(0)).y # 0

\* C27: on the freshly initialised field, uniform in x and z at every
\* level, getWindVectorAt has no horizontal component at any point inside
\* the domain, the points within 50 of the faces x = 2000 and z = 500
\* included.
C27_UniformField ==
    ticks = 0 =>
        \A x \in SampleX, y \in SampleY, z \in SampleZ :
            Inside(x, y, z) =>
                /\ getWindVectorAt(temperatureField, pressureField, params,
                                   x, y, z).x = 0
                /\ getWindVectorAt(temperatureField, pressureField, params,
                                   x, y, z).z = 0


\* a step is an animation frame
IsFrame == Len(frameLog') = Len(frameLog) + 1

\* C22: in every animation frame that finds the app playing, updateFields
\* runs once, both passes over all cells, before any particle is advected,
\* and every particle advected samples the fields that call has left; a
\* frame that finds the app paused runs neither.
C22_FrameOrder ==
    [][IsFrame =>
           IF isPlaying
           THEN /\ ticks' = ticks + 1
                /\ calls' = calls + 1
                /\ temperatureField' =
                       updateTemperatureField(temperatureField, params,
                                              heatIntensity, coldIntensity)
                /\ pressureField' = updatePressureField(temperatureField', params).pressureField
                /\ isActive =>
                       LET advected == updateAll(Store, 0, maxParticles,
                                                 lastOp'.advanced, temperatureField',
                                                 pressureField', params)
                       IN  /\ positions' = advected.positions
                           /\ velocities' = advected.velocities
                           /\ colors' = advected.colors
           ELSE UNCHANGED <<ticks, calls, temperatureField, pressureField,
                            positions, velocities, colors>>]_vars

\* the last frame found the app playing and the particles running: it has
\* changed the temperature field and set a particle in motion
C22_Witness ==
    /\ frameLog # <<>> /\ frameLog[Len(frameLog)]
    /\ elapsed = 0
    /\ ticks > 0 /\ lastOp.name = "update" /\ lastOp.advanced > 0
    /\ temperatureField # InitialTemperature
    /\ \E i \in Range(maxParticles) : ~ParticleAtRest(i)

\* C26: with the app's speed set to s, 0.1 <= s <= 3, a frame that finds
\* the app playing advects each particle with dt equal to the time elapsed
\* since the frame before times s: the factor is applied once.
C26_SpeedOnce ==
    [][(IsFrame /\ isPlaying /\ isActive
            /\ R(1, 10) <= simulationSpeed /\ simulationSpeed <= I(3)) =>
           lastOp'.advanced = Mul(R(elapsed, 1000), simulationSpeed)]_vars

\* C29: the time step of a frame that finds the app playing is the time
\* elapsed since the animation frame before it, and none of the time
\* the app has spent paused is part of it, however play, pause and the
\* frames interleave.
C29_FrameDelta ==
    [][(IsFrame /\ isPlaying) =>
           /\ frameDelta' = Mul(R(elapsed, 1000), simulationSpeed)
           /\ frameDelta' = Mul(R(elapsed - pausedTime, 1000), simulationSpeed)]_vars

\* C23: the app's isPlaying and the particle system's isActive agree after
\* any sequence of play, pause, reset, startStepMode, nextStep, step-timer
\* expiry and endStepMode
C23_FlagsAgree == isPlaying = isActive

\* C24: once the demonstration is started and nothing else is done, the
\* timers take it through every step and it ends by itself: isStepMode is
\* false, the intensities are 80 and 60, the particles run at speed 1.0
C24_DemoEnds ==
    isStepMode ~> (/\ ~isStepMode
                   /\ heatIntensity = I(80)
                   /\ coldIntensity = I(60)
                   /\ isActive
                   /\ particleSpeed = I(1))

\* C25: at most one step timer is pending; a timer armed for step k advances
\* the demonstration only while step k is current, and no timer changes it
\* once step mode has ended
C25_TimerOwnsStep ==
    [][/\ Cardinality(timers) <= 1
       /\ \A t \in timers :
            StepTimerFires(t) =>
                /\ currentStep' # currentStep => t.step = currentStep
                /\ ~isStepMode => UNCHANGED <<currentStep, isStepMode>>]_vars

\* a step taken by the listener of the step-mode button: only startStepMode
\* arms a timer where none was armed by the same call before
IsStepModeClick == timerCount' = timerCount + 1

\* C28: while the demonstration runs the step-mode button reads "exit", and a
\* click on it while isStepMode is true ends the demonstration
C28_ClickExits ==
    [][/\ isStepMode => stepModeText = "exit"
       /\ (isStepMode /\ IsStepModeClick) => ~isStepMode']_vars

\* the questions answered so far: those passed and the one whose feedback is
\* shown
Answered == currentQuizIndex + (IF quizView = "feedback" THEN 1 ELSE 0)

\* C30: the quiz score is between 0 and the number of questions, with at
\* most one point per question answered (so a quiz just started or restarted
\* has score 0 at index 0), and the percentage is between 0 and 100
C30_QuizScore ==
    /\ 0 <= quizScore
    /\ quizScore <= Answered
    /\ Answered <= Len(quizQuestions)
    /\ (quizView = "question" /\ currentQuizIndex = 0) => quizScore = 0
    /\ percentage(quizScore) >= I(0)
    /\ percentage(quizScore) <= I(100)

C30_Witness ==
    /\ quizView = "result"
    /\ quizScore = Len(quizQuestions)
    /\ percentage(quizScore) = I(100)

====
